---- MODULE Spec2Model ----
(***************************************************************************)
(* Descent trajectory synthesis (bada_dis_time.py) and RTA-matching search *)
(* (A320.py).                                                              *)
(*                                                                         *)
(* Units.  Python floats are modelled as scaled integers:                  *)
(*   speeds in m/s        : 1e-6 m/s                                       *)
(*   'CAS(kt)', 'TAS(kt)' : tenths of a knot   (round(x, 1))               *)
(*   'Mach'               : thousandths        (round(x, 3))               *)
(*   'Alt-Dist Ratio'     : ft/nm              (round(x, 0))               *)
(*   'Fuel Flow(kg/s)'    : 1e-4 kg/s          (round(x, 4))               *)
(*   cum_distance         : 1e-3 nm,  'Cumulative Distance(nm)' : 0.1 nm   *)
(*   cum_time             : 1e-2 s,   'Cumulative Time(s)'      : 1 s      *)
(*   cum_fuel             : 1 g,      'Cumulative Fuel(kg)'     : 0.1 kg   *)
(*   ETA, RTA, tolerance  : tenths of a second                             *)
(*   route length, descent/cruise distance : tenths of a nautical mile     *)
(***************************************************************************)
EXTENDS Integers, Sequences, FiniteSets, TLC

\* Python's None (an absent intermediate CAS / level, an unset CAS limit).
None == -1

\* ---------------------------------------------------------------- rounding

Abs(x) == IF x < 0 THEN -x ELSE x

\* round(n / d) for n >= 0, d > 0, ties to even (Python's round()).
RoundHalfEven(n, d) ==
    LET q == n \div d
        r == n % d
    IN  IF 2 * r < d THEN q
        ELSE IF 2 * r > d THEN q + 1
        ELSE IF q % 2 = 0 THEN q ELSE q + 1

\* round(n / d) for any sign of n (round() is symmetric about zero).
RoundDiv(n, d) == IF n >= 0 THEN RoundHalfEven(n, d) ELSE -RoundHalfEven(-n, d)

\* ------------------------------------------------- performance oracle (pyBADA)
\* The aerodynamic model is an external collaborator; what the program needs
\* of it is that it is a deterministic function of its inputs.  OracleModels
\* are the oracles the model is checked against.

OracleModels == {"nominal", "steep", "level_low", "no_fuel", "gap_079", "gap_073"}

\* The oracle's domain error: "gap_079" has no data for a Mach 0.79 hold and
\* raises on every sample taken in that regime; "gap_073" has none for a
\* Mach 0.73 hold.
OracleRejects(oracle, mode, M) ==
    /\ mode = "Mach"
    /\ \/ oracle = "gap_079" /\ M = 790
       \/ oracle = "gap_073" /\ M = 730

\* conv.kt2ms: knots -> m/s (1e-6 m/s)
Kt2ms(kt) == kt * 514444

\* round(conv.ms2kt(v), 1): m/s (1e-6) -> tenths of a knot
Ms2ktTenths(ms) ==
    LET q == ms \div 514444
        r == ms % 514444
    IN  q * 10 + RoundHalfEven(r * 10, 514444)

\* speed of sound at a flight level, in mm/s (atm.atmosphereProperties' theta)
SoundSpeed(fl) == 340294 - 125 * fl

\* density/pressure correction CAS -> TAS at a flight level, per mille
CasTasFactor(fl) == 1000 + 2 * fl

\* atm.mach2Tas: Mach (1e-3) -> TAS (1e-6 m/s)
Mach2Tas(M, fl) == M * SoundSpeed(fl)

\* atm.cas2Tas: CAS (1e-6 m/s) -> TAS (1e-6 m/s)
Cas2Tas(cas, fl) == (cas \div 1000) * CasTasFactor(fl)

\* atm.tas2Mach: TAS (1e-6 m/s) -> Mach (1e-3, already rounded to 3 places)
Tas2Mach(tas, fl) == RoundHalfEven(tas, SoundSpeed(fl))

\* atm.mach2Cas: Mach (1e-3) -> CAS (1e-6 m/s)
Mach2Cas(M, fl) ==
    LET tas == Mach2Tas(M, fl)
        f == CasTasFactor(fl)
    IN  (tas \div f) * 1000 + ((tas % f) * 1000) \div f

\* int(conv.m2ft(atm.crossOver(cas, Mach)) / 100): the level at which the Mach
\* and the CAS give the same TAS, truncated to a flight level.
CrossOverFL(cas_ms, M) ==
    LET num == M * 340294 - cas_ms
        den == 125 * M + 2 * (cas_ms \div 1000)
    IN  IF num <= 0 THEN 0 ELSE num \div den

\* bada4.ROCD at idle thrust, in ft/min (negative: descending).  The energy
\* share factor makes a constant-Mach descent steeper than a constant-CAS one.
\* For "draggy" the sink rate grows with the square of the speed, so that a
\* faster descent is also a steeper one.
IdleRocd(oracle, fl, tas_kt10, mass, flight_evolution) ==
    LET base == IF oracle = "draggy"
                THEN ((tas_kt10 \div 10) * (tas_kt10 \div 10)) \div 200
                ELSE 800 + (4 * tas_kt10) \div 10
        esf == IF flight_evolution = "constM" THEN 11 ELSE 10
        rate == (base * esf * 6000) \div mass
    IN  CASE oracle = "steep" -> -(2 * rate)
          [] oracle = "level_low" /\ fl <= 60 -> 0
          [] OTHER -> -rate

\* bada4.ff at idle rating, in 1e-4 kg/s
IdleFuelFlow(oracle, fl, M) ==
    IF oracle = "no_fuel" THEN 0 ELSE 800 + 3 * (400 - fl) + M \div 2

\* ------------------------------------------------------- bada_dis_time.py

\* A resolver that leaves the crossover level itself to the CAS rules.
determine_speed_profile_above(flight_level, crossover_fl, descent_mach, high_cas, low_cas, low_cas_fl, constant_cas) ==
    IF constant_cas = None /\ flight_level > crossover_fl
    THEN [M |-> descent_mach, flight_evolution |-> "constM", target_cas |-> None]
    ELSE IF low_cas_fl # None /\ flight_level >= low_cas_fl
    THEN [M |-> None, flight_evolution |-> "constCAS", target_cas |-> high_cas]
    ELSE IF low_cas_fl # None /\ low_cas # None
    THEN [M |-> None, flight_evolution |-> "constCAS", target_cas |-> low_cas]
    ELSE [M |-> None, flight_evolution |-> "constCAS", target_cas |-> high_cas]

\* A resolver that already flies the intermediate CAS at the trigger level.
determine_speed_profile_at_trigger(flight_level, crossover_fl, descent_mach, high_cas, low_cas, low_cas_fl, constant_cas) ==
    IF constant_cas = None /\ flight_level >= crossover_fl
    THEN [M |-> descent_mach, flight_evolution |-> "constM", target_cas |-> None]
    ELSE IF low_cas_fl # None /\ flight_level > low_cas_fl
    THEN [M |-> None, flight_evolution |-> "constCAS", target_cas |-> high_cas]
    ELSE IF low_cas_fl # None /\ low_cas # None
    THEN [M |-> None, flight_evolution |-> "constCAS", target_cas |-> low_cas]
    ELSE [M |-> None, flight_evolution |-> "constCAS", target_cas |-> high_cas]

determine_speed_profile(flight_level, crossover_fl, descent_mach, high_cas, low_cas, low_cas_fl, constant_cas) ==
    IF constant_cas = None /\ flight_level >= crossover_fl
    THEN [M |-> descent_mach, flight_evolution |-> "constM", target_cas |-> None]
    ELSE IF low_cas_fl # None /\ flight_level >= low_cas_fl
    THEN [M |-> None, flight_evolution |-> "constCAS", target_cas |-> high_cas]
    ELSE IF low_cas_fl # None /\ low_cas # None
    THEN [M |-> None, flight_evolution |-> "constCAS", target_cas |-> low_cas]
    ELSE [M |-> None, flight_evolution |-> "constCAS", target_cas |-> high_cas]

\* A sampler that forgets the forced CAS and always follows the schedule.
ResolveSpeedUnforced(flight_level, crossover_fl, descent_mach, high_cas, low_cas, low_cas_fl, constant_cas, force_cas) ==
    determine_speed_profile(flight_level, crossover_fl, descent_mach,
                            high_cas, low_cas, low_cas_fl, constant_cas)

\* Lines 68-78 of calculate_performance_at_altitude: the schedule's speed, or
\* the forced CAS when one is given.
ResolveSpeed(flight_level, crossover_fl, descent_mach, high_cas, low_cas, low_cas_fl, constant_cas, force_cas) ==
    IF force_cas = None
    THEN determine_speed_profile(flight_level, crossover_fl, descent_mach,
                                 high_cas, low_cas, low_cas_fl, constant_cas)
    ELSE [M |-> None, flight_evolution |-> "constCAS", target_cas |-> force_cas]

calculate_performance_at_altitude(oracle, flight_level, aircraft_mass, crossover_fl, descent_mach, high_cas, low_cas, low_cas_fl, constant_cas, force_cas) ==
    LET sp == ResolveSpeed(flight_level, crossover_fl, descent_mach, high_cas,
                           low_cas, low_cas_fl, constant_cas, force_cas)
        cas == IF sp.M # None THEN Mach2Cas(sp.M, flight_level) ELSE Kt2ms(sp.target_cas)
        tas == IF sp.M # None THEN Mach2Tas(sp.M, flight_level) ELSE Cas2Tas(cas, flight_level)
        M   == IF sp.M # None THEN sp.M ELSE Tas2Mach(tas, flight_level)
        tas_kt10 == Ms2ktTenths(tas)
        rocd == IdleRocd(oracle, flight_level, tas_kt10, aircraft_mass, sp.flight_evolution)
        ft_per_nm == IF tas_kt10 > 0 THEN RoundHalfEven(Abs(rocd) * 600, tas_kt10) ELSE 0
    IN  [FL    |-> flight_level,
         mode  |-> IF sp.M # None THEN "Mach" ELSE "CAS",
         Mach  |-> M,
         CAS   |-> Ms2ktTenths(cas),
         TAS   |-> tas_kt10,
         ratio |-> ft_per_nm,
         ff    |-> IdleFuelFlow(oracle, flight_level, M),
         is_decel |-> FALSE,
         cumD |-> 0, cumT |-> 0, cumF |-> 0]

RECURSIVE LadderFrom(_, _)
\* range(fl, target_fl - 1, -10) as a sequence
LadderFrom(fl, target_fl) ==
    IF fl <= target_fl - 1 THEN << >> ELSE <<fl>> \o LadderFrom(fl - 10, target_fl)

\* A ladder that appends the target level without looking for it.
generate_flight_levels_appending(cruise_fl, target_fl) ==
    Append(LadderFrom(cruise_fl, target_fl), target_fl)

\* Lines 175-182.
generate_flight_levels(cruise_fl, target_fl) ==
    LET flight_levels == LadderFrom(cruise_fl, target_fl)
    IN  IF \E k \in 1..Len(flight_levels) : flight_levels[k] = target_fl
        THEN flight_levels
        ELSE Append(flight_levels, target_fl)

\* A cost computed with the two speeds exchanged.
calculate_deceleration_segment_swapped(current_cas, target_cas, fuel_flow_kg_per_sec) ==
    [dist |-> (target_cas - current_cas) * 10,
     time |-> (target_cas - current_cas) * 10,
     fuel |-> (fuel_flow_kg_per_sec * (target_cas - current_cas)) \div 100]

\* CAS in tenths of a knot, fuel flow in 1e-4 kg/s; returns 1e-3 nm, 1e-2 s, g
calculate_deceleration_segment(current_cas, target_cas, fuel_flow_kg_per_sec) ==
    IF current_cas <= target_cas
    THEN [dist |-> 0, time |-> 0, fuel |-> 0]
    ELSE [dist |-> (current_cas - target_cas) * 10,
          time |-> (current_cas - target_cas) * 10,
          fuel |-> (fuel_flow_kg_per_sec * (current_cas - target_cas)) \div 100]

\* Lines 285-305: distance (1e-3 nm), time (1e-2 s) and fuel (g) of the descent
\* from the previous point to the sampled one, from the averages of the two.
DescentSegment(prev_point, sampled) ==
    LET altitude_diff == (prev_point.FL - sampled.FL) * 100
        ratio2 == prev_point.ratio + sampled.ratio
        segment_distance == IF ratio2 > 0 THEN (altitude_diff * 2000) \div ratio2 ELSE 0
        tas2 == prev_point.TAS + sampled.TAS
        segment_time == IF tas2 > 0 THEN (segment_distance * 7200) \div tas2 ELSE 0
        segment_fuel == ((prev_point.ff + sampled.ff) * segment_time) \div 2000
    IN  [dist |-> segment_distance, time |-> segment_time, fuel |-> segment_fuel]

\* Lines 283-314: the sampled point with the cumulative totals after the
\* segment from the previous point.  Returns the point and the new totals.
IntegrateSegment(s, i, sampled) ==
    LET prev_point == s.result_points[Len(s.result_points)]
        seg == DescentSegment(prev_point, sampled)
        cum_distance == IF i > 0 THEN s.cum_distance + seg.dist ELSE s.cum_distance
        cum_time == IF i > 0 THEN s.cum_time + seg.time ELSE s.cum_time
        cum_fuel == IF i > 0 THEN s.cum_fuel + seg.fuel ELSE s.cum_fuel
        point_data == [sampled EXCEPT !.cumD = RoundHalfEven(cum_distance, 100),
                                      !.cumT = RoundHalfEven(cum_time, 100),
                                      !.cumF = RoundHalfEven(cum_fuel, 100)]
    IN  [s EXCEPT !.result_points = Append(s.result_points, point_data),
                  !.cum_distance = cum_distance,
                  !.cum_time = cum_time,
                  !.cum_fuel = cum_fuel]

\* The chain written with independent ifs: every condition that holds fires.
DecelerationTriggerIndependent(c, fl, cas) ==
    LET is_low_cas_fl == IF c.low_cas_fl # None THEN fl = c.low_cas_fl ELSE FALSE
    IN  (IF fl = 100 /\ cas > 2500
         THEN <<[type |-> "Statutory Deceleration", target_cas |-> 250]>> ELSE << >>)
        \o (IF is_low_cas_fl /\ c.low_cas # None /\ cas > c.low_cas * 10
            THEN <<[type |-> "Profile Deceleration", target_cas |-> c.low_cas]>> ELSE << >>)
        \o (IF fl = 30 /\ cas > 2200
            THEN <<[type |-> "Approach Deceleration", target_cas |-> 220]>> ELSE << >>)

\* Lines 319-343: the if/elif chain deciding need_deceleration, target_cas and
\* decel_type for a point.  The result is the sequence of triggers that fire:
\* empty (need_deceleration stays False) or the one branch taken.
DecelerationTrigger(c, fl, cas) ==
    LET is_fl100 == (fl = 100)
        is_low_cas_fl == IF c.low_cas_fl # None THEN fl = c.low_cas_fl ELSE FALSE
        is_fl30 == (fl = 30)
    IN  IF is_fl100 /\ cas > 2500
        THEN <<[type |-> "Statutory Deceleration", target_cas |-> 250]>>
        ELSE IF is_low_cas_fl /\ c.low_cas # None /\ cas > c.low_cas * 10
        THEN <<[type |-> "Profile Deceleration", target_cas |-> c.low_cas]>>
        ELSE IF is_fl30 /\ cas > 2200
        THEN <<[type |-> "Approach Deceleration", target_cas |-> 220]>>
        ELSE << >>

\* A limit that is never lowered once set.
NewCasLimitFirst(old_limit, target_cas) == IF old_limit # None THEN old_limit ELSE target_cas

\* A branch that leaves the CAS limit as it was.
NewCasLimitKept(old_limit, target_cas) == old_limit

\* Lines 329, 336, 343: the branch taken stores its target as the CAS limit.
NewCasLimit(old_limit, target_cas) == target_cas

\* A total that ignores the cost of the deceleration.
AddCostDropped(total, cost) == total

\* Lines 374-377: cum_distance += decel_dist, and the same for time and fuel.
AddCost(total, cost) == total + cost

\* Lines 346-388: record the segment, re-sample the level at the target CAS,
\* add the segment's cost to the totals and append the deceleration point.
InsertDeceleration(c, s, point_data, trig) ==
    LET fl == point_data.FL
        target_cas == trig.target_cas
        current_cas == point_data.CAS
        seg == calculate_deceleration_segment(current_cas, target_cas * 10, point_data.ff)
        decel_segment == [type |-> trig.type, FL |-> fl, CAS_before |-> current_cas,
                          CAS_after |-> target_cas * 10, dist |-> seg.dist,
                          time |-> seg.time, fuel |-> seg.fuel, TAS |-> point_data.TAS]
        resampled == calculate_performance_at_altitude(
                         c.oracle, fl, c.aircraft_mass, c.crossover_fl, c.descent_mach,
                         c.high_cas, c.low_cas, c.low_cas_fl, c.constant_cas, target_cas)
        cum_distance == AddCost(s.cum_distance, seg.dist)
        cum_time == AddCost(s.cum_time, seg.time)
        cum_fuel == AddCost(s.cum_fuel, seg.fuel)
        decel_point == [resampled EXCEPT !.is_decel = TRUE,
                                         !.cumD = RoundHalfEven(cum_distance, 100),
                                         !.cumT = RoundHalfEven(cum_time, 100),
                                         !.cumF = RoundHalfEven(cum_fuel, 100)]
    IN  [result_points |-> Append(s.result_points, decel_point),
         decel_segments |-> Append(s.decel_segments, decel_segment),
         cum_distance |-> cum_distance, cum_time |-> cum_time, cum_fuel |-> cum_fuel,
         current_cas_limit |-> NewCasLimit(s.current_cas_limit, target_cas)]

RECURSIVE InsertAll(_, _, _, _)
\* InsertDeceleration for every trigger of a sequence, in order.
InsertAll(c, s, point_data, trigs) ==
    IF trigs = << >> THEN s
    ELSE InsertAll(c, InsertDeceleration(c, s, point_data, Head(trigs)),
                   point_data, Tail(trigs))

\* One iteration of the loop over flight_levels (lines 269-388): sample the
\* level under the current CAS limit, integrate the segment from the previous
\* point, and insert a deceleration segment and point when a trigger fires.
\* c: the run's parameters, s: the loop's locals, i: 0-based index, fl: level.
ProcessLevel(c, s, i, fl) ==
    LET sampled == calculate_performance_at_altitude(
                       c.oracle, fl, c.aircraft_mass, c.crossover_fl, c.descent_mach,
                       c.high_cas, c.low_cas, c.low_cas_fl, c.constant_cas,
                       s.current_cas_limit)
        s1 == IntegrateSegment(s, i, sampled)
        point_data == s1.result_points[Len(s1.result_points)]
    IN  InsertAll(c, s1, point_data, DecelerationTrigger(c, fl, point_data.CAS))

\* The locals before the loop (lines 254-266).
LoopStart ==
    [result_points |-> << >>, decel_segments |-> << >>,
     cum_distance |-> 0, cum_time |-> 0, cum_fuel |-> 0, current_cas_limit |-> None]

\* Locals that keep what an earlier invocation left behind.
StaleLocals(left_behind) == left_behind

\* Lines 254-266 run at every invocation: the lists and the totals are local
\* and start empty whatever an earlier invocation left behind.
FreshLocals(left_behind) == LoopStart

\* The run's parameters after the preamble (lines 232-246).
RunParams(oracle_, aircraft_mass_, descent_mach_, high_cas_, low_cas_, low_cas_fl_, constant_cas_) ==
    LET low_cas1 == IF low_cas_ = None THEN high_cas_ ELSE low_cas_
        mach2 == IF constant_cas_ # None THEN 900 ELSE descent_mach_
        high_cas2 == IF constant_cas_ # None THEN constant_cas_ ELSE high_cas_
        low_cas2 == IF constant_cas_ # None THEN constant_cas_ ELSE low_cas1
    IN  [oracle |-> oracle_, aircraft_mass |-> aircraft_mass_,
         descent_mach |-> mach2, high_cas |-> high_cas2, low_cas |-> low_cas2,
         low_cas_fl |-> low_cas_fl_, constant_cas |-> constant_cas_,
         crossover_fl |-> CrossOverFL(Kt2ms(high_cas2), mach2)]

\* The summary of a finished loop (lines 390-408): distance in 0.1 nm, time in s,
\* fuel in 0.1 kg, read from the last point.
Summary(s) ==
    LET last == s.result_points[Len(s.result_points)]
    IN  [distance |-> last.cumD, time |-> last.cumT, fuel |-> last.cumF]

RECURSIVE RunLoop(_, _, _, _)
\* The loop from index i (0-based) to the end of flight_levels.  (Binding a
\* value through a one-element set makes TLC compute it once, here and below.)
RunLoop(c, s, i, flight_levels) ==
    IF i >= Len(flight_levels) THEN s
    ELSE CHOOSE out \in {RunLoop(c, after, i + 1, flight_levels) :
                            after \in {ProcessLevel(c, s, i, flight_levels[i + 1])}} : TRUE

\* TRUE when the oracle raises on one of the points the loop sampled.
AnyRejected(oracle, points) ==
    \E k \in 1..Len(points) : OracleRejects(oracle, points[k].mode, points[k].Mach)

\* calculate_descent_profile (lines 512-572) as a function of its arguments:
\* the summary, the points and the deceleration log, or raised when the oracle
\* raised on the way.
calculate_descent_profile(oracle, cruise_fl, target_fl, aircraft_mass, descent_mach, high_cas, intermediate_cas, intermediate_fl) ==
    CHOOSE out \in
        {[raised |-> AnyRejected(oracle, r.result_points),
          summary |-> Summary(r),
          df |-> r.result_points,
          decel_segments |-> r.decel_segments] :
            r \in {RunLoop(c, LoopStart, 0, levels) :
                      c \in {RunParams(oracle, aircraft_mass, descent_mach, high_cas,
                                       intermediate_cas, intermediate_fl, None)},
                      levels \in {generate_flight_levels(cruise_fl, target_fl)}}} : TRUE

\* ------------------------------------------------------------- Utility.py

\* round(Utility.mach2tas_kt(flight_level, mach), 1), in tenths of a knot
mach2tas_kt(flight_level, mach) == Ms2ktTenths(Mach2Tas(mach, flight_level))

\* ---------------------------------------------------------------- A320.py

\* The trip assembly done for each schedule (lines 44-53, 56-65, 249-259):
\* distances in 0.1 nm, times in 0.1 s.
TripEta(origin_fl, standard_route_length, mach, summary) ==
    LET descent_distance == summary.distance
        descent_time == summary.time * 10
        cruise_gs == mach2tas_kt(origin_fl, mach)
        cruise_distance == standard_route_length - descent_distance
        cruise_time == RoundDiv(cruise_distance * 36000, cruise_gs)
    IN  [descent_distance |-> descent_distance, descent_time |-> descent_time,
         cruise_distance |-> cruise_distance, cruise_time |-> cruise_time,
         total_eta |-> cruise_time + descent_time]

\* A bracket with the two schedules exchanged.
calculate_eta_window_swapped(oracle, origin_fl, target_fl, aircraft_mass, standard_route_length) ==
    CHOOSE out \in
        {LET min_t == TripEta(origin_fl, standard_route_length, 730, min_p.summary)
             max_t == TripEta(origin_fl, standard_route_length, 800, max_p.summary)
         IN  [raised |-> min_p.raised \/ max_p.raised,
              ETAmin |-> min_t, ETAmax |-> max_t,
              window |-> max_t.total_eta - min_t.total_eta] :
            min_p \in {calculate_descent_profile(oracle, origin_fl, target_fl, aircraft_mass,
                                                 730, 245, 220, 150)},
            max_p \in {calculate_descent_profile(oracle, origin_fl, target_fl, aircraft_mass,
                                                 800, 310, None, None)}} : TRUE

calculate_eta_window(oracle, origin_fl, target_fl, aircraft_mass, standard_route_length) ==
    CHOOSE out \in
        {LET min_t == TripEta(origin_fl, standard_route_length, 800, min_p.summary)
             max_t == TripEta(origin_fl, standard_route_length, 730, max_p.summary)
         IN  [raised |-> min_p.raised \/ max_p.raised,
              ETAmin |-> min_t, ETAmax |-> max_t,
              window |-> max_t.total_eta - min_t.total_eta] :
            min_p \in {calculate_descent_profile(oracle, origin_fl, target_fl, aircraft_mass,
                                                 800, 310, None, None)},
            max_p \in {calculate_descent_profile(oracle, origin_fl, target_fl, aircraft_mass,
                                                 730, 245, 220, 150)}} : TRUE

\* num / den < a / 10 for den # 0 (the comparisons of relative_position)
\* A comparison that takes the boundary with the lower band.
RatioAtMost(num, den, a) ==
    IF den > 0 THEN num * 10 <= a * den ELSE num * 10 >= a * den

RatioBelow(num, den, a) ==
    IF den > 0 THEN num * 10 < a * den ELSE num * 10 > a * den

\* The five bands of generate_profile_params (lines 318-388):
\* mach_values, cas_ranges and int_options.
Band(eta_min, eta_max, rta) ==
    LET num == rta - eta_min
        den == eta_max - eta_min
    IN  IF RatioBelow(num, den, 2)
        THEN [mach_values |-> <<780, 790, 800>>,
              cas_ranges |-> <<<<290, 295, 300>>, <<295, 300, 305>>, <<300, 305, 310>>>>,
              int_options |-> <<<<None, None>>, <<220, 50>>, <<220, 50>>>>]
        ELSE IF RatioBelow(num, den, 4)
        THEN [mach_values |-> <<760, 770, 780, 790>>,
              cas_ranges |-> <<<<275, 280, 285>>, <<280, 285, 290, 295>>,
                               <<285, 290, 295>>, <<290, 295, 300>>>>,
              int_options |-> <<<<None, None>>, <<220, 50>>, <<220, 60>>>>]
        ELSE IF RatioBelow(num, den, 6)
        THEN [mach_values |-> <<750, 760, 770>>,
              cas_ranges |-> <<<<265, 270, 275, 280>>, <<270, 275, 280>>, <<275, 280, 285>>>>,
              int_options |-> <<<<None, None>>, <<220, 50>>, <<220, 60>>, <<220, 80>>>>]
        ELSE IF RatioBelow(num, den, 8)
        THEN [mach_values |-> <<740, 750, 760>>,
              cas_ranges |-> <<<<250, 255, 260>>, <<255, 260, 265>>, <<265, 270, 275>>>>,
              int_options |-> <<<<220, 50>>, <<220, 60>>, <<220, 80>>, <<220, 100>>>>]
        ELSE [mach_values |-> <<730, 740>>,
              cas_ranges |-> <<<<245, 250, 255>>, <<250, 255, 260>>>>,
              int_options |-> <<<<220, 60>>, <<220, 80>>, <<220, 100>>, <<220, 120>>,
                                <<220, 130>>, <<220, 150>>>>]

Param(mach, cas, int_cas, int_fl) ==
    [descent_mach |-> mach, high_cas |-> cas,
     intermediate_cas |-> int_cas, intermediate_fl |-> int_fl]

RECURSIVE ForOptionsDistinct(_, _, _)
\* A loop that skips an option listed again further on.
ForOptionsDistinct(mach, cas, opts) ==
    IF opts = << >> THEN << >>
    ELSE (IF \E n \in 2..Len(opts) : opts[n] = Head(opts)
          THEN << >>
          ELSE <<Param(mach, cas, Head(opts)[1], Head(opts)[2])>>)
         \o ForOptionsDistinct(mach, cas, Tail(opts))

RECURSIVE ForOptions(_, _, _)
ForOptions(mach, cas, opts) ==
    IF opts = << >> THEN << >>
    ELSE <<Param(mach, cas, Head(opts)[1], Head(opts)[2])>>
         \o ForOptions(mach, cas, Tail(opts))

RECURSIVE ForCas(_, _, _)
ForCas(mach, cass, opts) ==
    IF cass = << >> THEN << >>
    ELSE ForOptions(mach, Head(cass), opts) \o ForCas(mach, Tail(cass), opts)

RECURSIVE ForMach(_, _, _)
\* The three nested loops of lines 391-402.
ForMach(machs, cas_ranges, opts) ==
    IF machs = << >> THEN << >>
    ELSE ForCas(Head(machs), Head(cas_ranges), opts)
         \o ForMach(Tail(machs), Tail(cas_ranges), opts)

\* generate_profile_params for eta_max # eta_min (the division of line 315
\* raises ZeroDivisionError otherwise).
generate_profile_params(eta_min, eta_max, rta) ==
    LET b == Band(eta_min, eta_max, rta)
    IN  ForMach(b.mach_values, b.cas_ranges, b.int_options)
        \o <<Param(800, 310, None, None), Param(730, 245, 220, 150)>>

\* The body of the try block for one candidate (lines 229-279): the descent
\* profile, the trip and the difference from the target.
EvaluateCandidate(oracle, origin_fl, target_fl, aircraft_mass, standard_route_length, rta, p) ==
    LET both == p.intermediate_fl # None /\ p.intermediate_cas # None
    IN  CHOOSE out \in
            {[raised |-> prof.raised,
              params |-> p,
              eta |-> trip.total_eta,
              diff |-> Abs(trip.total_eta - rta),
              descent_distance |-> trip.descent_distance,
              descent_time |-> trip.descent_time,
              cruise_distance |-> trip.cruise_distance,
              cruise_time |-> trip.cruise_time,
              fuel_kg |-> prof.summary.fuel] :
                <<prof, trip>> \in
                    {<<pr, TripEta(origin_fl, standard_route_length, p.descent_mach, pr.summary)>> :
                        pr \in {calculate_descent_profile(
                                    oracle, origin_fl, target_fl, aircraft_mass,
                                    p.descent_mach, p.high_cas,
                                    IF both THEN p.intermediate_cas ELSE None,
                                    IF both THEN p.intermediate_fl ELSE None)}}} : TRUE

\* A feasibility check that forgets the tolerance.
InfeasibleNoTolerance(rta, eta_min, eta_max, tolerance) ==
    rta < eta_min \/ rta > eta_max

\* A division that yields a value for every divisor.
DivisionTotal(num, den) == FALSE

\* Line 315: the division raises ZeroDivisionError for a zero divisor.
DivisionRaises(num, den) == den = 0

\* A check of the early side only.
InfeasibleEarly(rta, eta_min, eta_max, tolerance) ==
    rta < eta_min - tolerance

\* Lines 204-209: the target is outside the bracket widened by the tolerance.
Infeasible(rta, eta_min, eta_max, tolerance) ==
    rta < eta_min - tolerance \/ rta > eta_max + tolerance

\* A comparison that leaves out the boundary.
WithinToleranceStrict(eta_diff, tolerance) == eta_diff < tolerance

\* Line 268: the candidate is kept when its difference is within the tolerance.
WithinTolerance(eta_diff, tolerance) == eta_diff <= tolerance

\* A loop body without the try block: the exception leaves the function.
CandidateOutcomeUncaught(c, tolerance) ==
    IF c.raised THEN "raise"
    ELSE IF WithinTolerance(c.diff, tolerance) THEN "keep" ELSE "drop"

\* Lines 228-288: what one iteration does with its candidate.  An exception in
\* the try block is caught and the candidate is skipped; otherwise it is kept
\* when within the tolerance.  ("raise" would leave the function.)
CandidateOutcome(c, tolerance) ==
    IF c.raised THEN "skip"
    ELSE IF WithinTolerance(c.diff, tolerance) THEN "keep" ELSE "drop"

\* An insertion that ignores the keys.
InsertSortedFront(sorted, x) == <<x>> \o sorted

RECURSIVE InsertSorted(_, _)
\* x placed after every element whose diff is <= its own (a stable sort)
InsertSorted(sorted, x) ==
    IF sorted = << >> THEN <<x>>
    ELSE IF Head(sorted).diff <= x.diff
         THEN <<Head(sorted)>> \o InsertSorted(Tail(sorted), x)
         ELSE <<x>> \o sorted

RECURSIVE SortByDiff(_)
\* A list left in evaluation order.
SortByDiffSkipped(list) == list

\* list.sort(key=lambda x: x["diff"]) (line 291): Python's sort is stable
SortByDiff(list) ==
    IF list = << >> THEN << >>
    ELSE InsertSorted(SortByDiff(SubSeq(list, 1, Len(list) - 1)), list[Len(list)])

\* suitable_profiles[:max_profiles] for max_profiles >= 0 (line 294)
Truncate(list, max_profiles) ==
    SubSeq(list, 1, IF max_profiles < Len(list) THEN max_profiles ELSE Len(list))

\* ------------------------------------------------------------ the inputs

\* MaxProfiles bounds the max_profiles argument of find_profile_for_rta.
MaxProfiles == 5

CruiseLevels == {370, 375, 120, 100}
TargetLevels == {30, 25, 100, 160, 380}
Masses == {60000, 72000}
Machs == {730, 790, 800}
HighCas == {245, 310}
\* (intermediate_cas, intermediate_fl)
Intermediates ==
    {<<None, None>>, <<220, 150>>, <<220, 100>>, <<260, 100>>, <<230, 30>>,
     <<260, 350>>, <<300, 50>>, <<220, None>>, <<None, 100>>}

OriginLevels == {370, 200}
SearchTargets == {30, 160}
SearchOracles == {"nominal", "gap_079", "gap_073"}
\* standard_route_length, in 0.1 nm
RouteLengths == {2000, 500}
\* tolerance, in 0.1 s
Tolerances == {0, 100}
\* a trip that ends where it starts: origin level, target level, route length
LevelTrips == {<<160, 160, 0>>}
SearchTrips == (OriginLevels \X SearchTargets \X RouteLengths) \cup LevelTrips

\* The targets tried for a bracket: both sides of each feasibility limit, the
\* two ends and points across the window.
RtaChoices(eta_min, eta_max, tol) ==
    {eta_min - tol - 1, eta_min - tol, eta_max + tol, eta_max + tol + 1}
    \cup {eta_min + (k * (eta_max - eta_min)) \div 10 : k \in {0, 1, 2, 4, 5, 6, 8, 10}}

\* ------------------------------------------------------------------ state

VARIABLES
    oracle,            \* the performance oracle in use
    target_fl, aircraft_mass,               \* arguments of both entry points
    cruise_fl, descent_mach, high_cas,
    intermediate_cas, intermediate_fl,      \* calculate_descent_profile's arguments
    params,            \* low_cas, low_cas_fl, crossover_fl, ... after the preamble
    flight_levels,     \* generate_flight_levels(cruise_fl, target_fl)
    i,                 \* the loop index (0-based)
    loop,              \* result_points, decel_segments, cum_*, current_cas_limit
    summary,           \* the returned summary, None before the return
    pc,                \* "call", "loop", "done", "raised"; "idle" in a search
    origin_fl, standard_route_length, rta, tolerance,
    max_profiles,      \* find_profile_for_rta's arguments
    bracket,           \* calculate_eta_window's result
    profile_params,    \* generate_profile_params' list
    k,                 \* candidates evaluated so far
    suitable_profiles, \* the candidates kept
    returned,          \* the list find_profile_for_rta returns
    spc,               \* "call", "loop", "done", "raised"; "idle" in a profile run
    invocation,        \* 1 or 2: which call of calculate_descent_profile this is
    previous,          \* what the first call returned
    resolver_call,     \* the arguments of one call of the speed resolver
    speed_profile,     \* what that call returned
    sep_model,         \* the separation model of one aircraft pair
    RTA,               \* the arrival times assigned to the pair
    B,                 \* the binary ordering variable of the pair
    verdict,           \* which constraints the assignment satisfies
    sep_pc             \* "built", "assigned", "verified"; "idle" elsewhere

args == <<oracle, target_fl, aircraft_mass, cruise_fl, descent_mach, high_cas,
          intermediate_cas, intermediate_fl>>

profile_vars == <<params, flight_levels, i, loop, summary, pc>>

search_args == <<origin_fl, standard_route_length, rta, tolerance>>

search_vars == <<max_profiles, bracket, profile_params, k, suitable_profiles,
                 returned, spc>>

repeat_vars == <<invocation, previous>>

resolver_vars == <<resolver_call, speed_profile>>

separation_vars == <<sep_model, RTA, B, verdict, sep_pc>>

vars == <<args, profile_vars, search_args, search_vars, repeat_vars, resolver_vars,
          separation_vars>>

\* calculate_descent_profile's return value before it has returned
NoReturn == [summary |-> None, df |-> << >>, decel_segments |-> << >>]

\* ------------------------------- calculate_descent_profile as a state machine

Init ==
    /\ oracle \in OracleModels
    /\ cruise_fl \in CruiseLevels
    /\ target_fl \in TargetLevels
    /\ aircraft_mass \in Masses
    /\ descent_mach \in Machs
    /\ high_cas \in HighCas
    /\ \E im \in Intermediates : intermediate_cas = im[1] /\ intermediate_fl = im[2]
    /\ params = None
    /\ flight_levels = << >>
    /\ i = 0
    /\ loop = LoopStart
    /\ summary = None
    /\ pc = "call"
    /\ origin_fl = None /\ standard_route_length = None /\ rta = None
    /\ tolerance = None /\ max_profiles = None /\ bracket = None
    /\ profile_params = << >> /\ k = 0 /\ suitable_profiles = << >>
    /\ returned = None /\ spc = "idle"
    /\ invocation = 1 /\ previous = NoReturn
    /\ resolver_call = None /\ speed_profile = None
    /\ sep_model = None /\ RTA = None /\ B = None /\ verdict = None /\ sep_pc = "idle"

\* calculate_descent_profile -> calculate_detailed_descent_with_deceleration,
\* up to the loop (lines 537-266).
Enter ==
    /\ pc = "call"
    /\ params' = RunParams(oracle, aircraft_mass, descent_mach, high_cas,
                           intermediate_cas, intermediate_fl, None)
    /\ flight_levels' = generate_flight_levels(cruise_fl, target_fl)
    /\ loop' = FreshLocals(loop)
    /\ i' = 0
    /\ pc' = "loop"
    /\ UNCHANGED <<args, summary, search_args, search_vars, repeat_vars, resolver_vars,
                   separation_vars>>

\* One loop iteration; the oracle's error leaves the function at once.
Iterate ==
    /\ pc = "loop"
    /\ i < Len(flight_levels)
    /\ LET after == ProcessLevel(params, loop, i, flight_levels[i + 1])
           sampled == SubSeq(after.result_points, Len(loop.result_points) + 1,
                             Len(after.result_points))
       IN  IF AnyRejected(oracle, sampled)
           THEN pc' = "raised" /\ UNCHANGED <<loop, i>>
           ELSE loop' = after /\ i' = i + 1 /\ pc' = pc
    /\ UNCHANGED <<args, params, flight_levels, summary, search_args, search_vars,
                   repeat_vars, resolver_vars,
                   separation_vars>>

\* The summary and the return (lines 390-410).
Return ==
    /\ pc = "loop"
    /\ i = Len(flight_levels)
    /\ summary' = Summary(loop)
    /\ pc' = "done"
    /\ UNCHANGED <<args, params, flight_levels, i, loop, search_args, search_vars,
                   repeat_vars, resolver_vars,
                   separation_vars>>

\* The caller calls again with the same arguments; the first call's return
\* value is remembered for comparison.
CallAgain ==
    /\ pc = "done"
    /\ invocation = 1
    /\ previous' = [summary |-> summary, df |-> loop.result_points,
                    decel_segments |-> loop.decel_segments]
    /\ invocation' = 2
    /\ summary' = None
    /\ pc' = "call"
    /\ UNCHANGED <<args, params, flight_levels, i, loop, search_args, search_vars,
                   resolver_vars,
                   separation_vars>>

Next == Enter \/ Iterate \/ Return \/ CallAgain

Spec == Init /\ [][Next]_vars

\* --------------------------------------------- claims about one profile run

result_points == loop.result_points
decel_segments == loop.decel_segments

\* C1: cumulative distance, time and fuel never decrease from one point of the
\* sequence to the next, deceleration points included.
C1_CumulativeNonDecreasing ==
    \A n \in 1..(Len(result_points) - 1) :
        /\ result_points[n].cumD <= result_points[n + 1].cumD
        /\ result_points[n].cumT <= result_points[n + 1].cumT
        /\ result_points[n].cumF <= result_points[n + 1].cumF

\* A finished run with two deceleration points, each strictly further along in
\* distance, time and fuel than the point that triggered it.
C1_Witness ==
    /\ pc = "done"
    /\ Len(decel_segments) >= 2
    /\ \A n \in 2..Len(result_points) :
          result_points[n].is_decel =>
              /\ result_points[n - 1].cumD < result_points[n].cumD
              /\ result_points[n - 1].cumT < result_points[n].cumT
              /\ result_points[n - 1].cumF < result_points[n].cumF

\* C2: every logged segment slows down (CAS before > CAS after), and the point
\* right after its triggering point is at the same level, is flagged as a
\* deceleration point and has exactly the segment's target CAS.
C2_SegmentShape ==
    \A n \in 1..Len(decel_segments) :
        LET seg == decel_segments[n]
        IN  /\ seg.CAS_before > seg.CAS_after
            /\ \E j \in 1..(Len(result_points) - 1) :
                  /\ result_points[j].FL = seg.FL
                  /\ ~result_points[j].is_decel
                  /\ result_points[j].CAS = seg.CAS_before
                  /\ result_points[j + 1].FL = seg.FL
                  /\ result_points[j + 1].is_decel
                  /\ result_points[j + 1].CAS = seg.CAS_after

\* A finished run with a segment of each of the three types.
C2_Witness ==
    /\ pc = "done"
    /\ \A ty \in {"Statutory Deceleration", "Profile Deceleration", "Approach Deceleration"} :
          \E n \in 1..Len(decel_segments) : decel_segments[n].type = ty

\* C3: no point that follows a segment's deceleration point has a CAS above
\* the segment's target.
C3_NoLaterPointAboveTarget ==
    \A n \in 1..Len(decel_segments) :
        \A d \in 1..Len(result_points) :
            (result_points[d].is_decel /\ result_points[d].FL = decel_segments[n].FL)
            => \A j \in d..Len(result_points) :
                   result_points[j].CAS <= decel_segments[n].CAS_after

\* A finished run with a statutory segment at FL100 whose schedule (310 kt, no
\* intermediate step) would by itself fly 310 kt at the levels sampled below.
C3_Witness ==
    /\ pc = "done"
    /\ high_cas = 310 /\ intermediate_fl = None
    /\ \E n \in 1..Len(decel_segments) : decel_segments[n].FL = 100
    /\ \E j \in 1..Len(result_points) : result_points[j].FL < 100

SegmentsAt(fl) == {n \in 1..Len(decel_segments) : decel_segments[n].FL = fl}

\* one of the three trigger conditions holds for the point p
TriggerHolds(p) ==
    \/ p.FL = 100 /\ p.CAS > 2500
    \/ p.FL = 30 /\ p.CAS > 2200
    \/ params.low_cas_fl # None /\ p.FL = params.low_cas_fl /\ p.CAS > params.low_cas * 10

C10_InvalidConfigRejected ==
    pc = "done" =>
        /\ target_fl <= cruise_fl
        /\ (intermediate_cas # None => intermediate_cas <= high_cas)

\* the logged segment of the deceleration point p (one per level)
SegmentOf(p) == decel_segments[CHOOSE n \in 1..Len(decel_segments) : decel_segments[n].FL = p.FL]

\* what reaching point n adds to the totals: the logged deceleration for a
\* deceleration point, the descent from the previous point otherwise
CostOf(n) ==
    IF result_points[n].is_decel
    THEN SegmentOf(result_points[n])
    ELSE DescentSegment(result_points[n - 1], result_points[n])

RECURSIVE TotalsUpTo(_)
\* the running totals (1e-3 nm, 1e-2 s, g) after each of the first n points
TotalsUpTo(n) ==
    IF n = 0 THEN << >>
    ELSE IF n = 1 THEN <<[dist |-> 0, time |-> 0, fuel |-> 0]>>
    ELSE CHOOSE out \in
             {Append(before, [dist |-> before[n - 1].dist + cost.dist,
                              time |-> before[n - 1].time + cost.time,
                              fuel |-> before[n - 1].fuel + cost.fuel]) :
                 before \in {TotalsUpTo(n - 1)}, cost \in {CostOf(n)}} : TRUE

\* C21: a logged deceleration from CAS b to CAS a costs (b - a)/10 nm,
\* (b - a) s and the fuel flow of the triggering point times that time; in a
\* finished profile every point carries the rounded sum of the descents and
\* decelerations up to it (the points before a deceleration do not carry its
\* cost, its own point and all later ones do), and the summary is that of the
\* sum of all descents and all decelerations.
C21_DecelerationCostCarried ==
    /\ \A n \in 1..Len(decel_segments) :
          LET seg == decel_segments[n]
          IN  /\ seg.dist = (seg.CAS_before - seg.CAS_after) * 10
              /\ seg.time = (seg.CAS_before - seg.CAS_after) * 10
              /\ \E j \in 1..Len(result_points) :
                    /\ result_points[j].FL = seg.FL /\ ~result_points[j].is_decel
                    /\ seg.fuel = (result_points[j].ff * (seg.CAS_before - seg.CAS_after)) \div 100
    /\ pc = "done" =>
          \E totals \in {TotalsUpTo(Len(result_points))} :
              /\ \A n \in 1..Len(result_points) :
                    /\ result_points[n].cumD = RoundHalfEven(totals[n].dist, 100)
                    /\ result_points[n].cumT = RoundHalfEven(totals[n].time, 100)
                    /\ result_points[n].cumF = RoundHalfEven(totals[n].fuel, 100)
              /\ summary.distance = RoundHalfEven(totals[Len(totals)].dist, 100)
              /\ summary.time = RoundHalfEven(totals[Len(totals)].time, 100)
              /\ summary.fuel = RoundHalfEven(totals[Len(totals)].fuel, 100)

\* A finished profile with two decelerations of positive cost, the second of
\* which is followed by further points.
C21_Witness ==
    /\ pc = "done"
    /\ Len(decel_segments) >= 2
    /\ \A n \in 1..Len(decel_segments) : decel_segments[n].fuel > 0
    /\ \E j \in 1..(Len(result_points) - 2) : result_points[j].is_decel
    /\ ~result_points[Len(result_points)].is_decel

\* C22: for a target level not above the cruise level the ladder of levels
\* starts at the cruise level, ends at the target level, is strictly
\* decreasing in steps of 10 except for a last step of 1 to 10, and holds the
\* target level once.
C22_LadderShape ==
    (pc \in {"loop", "done", "raised"} /\ target_fl <= cruise_fl) =>
        /\ Len(flight_levels) >= 1
        /\ flight_levels[1] = cruise_fl
        /\ flight_levels[Len(flight_levels)] = target_fl
        /\ \A n \in 1..(Len(flight_levels) - 2) : flight_levels[n] - flight_levels[n + 1] = 10
        /\ Len(flight_levels) >= 2 =>
              LET last == flight_levels[Len(flight_levels) - 1] - target_fl
              IN  last >= 1 /\ last <= 10
        /\ Cardinality({n \in 1..Len(flight_levels) : flight_levels[n] = target_fl}) = 1

\* A ladder whose last step is shorter than 10: the target was appended.
C22_Witness ==
    /\ pc = "loop"
    /\ target_fl < cruise_fl
    /\ Len(flight_levels) >= 3
    /\ flight_levels[Len(flight_levels) - 1] - target_fl = 5

\* A ladder that reaches the target in whole steps: nothing was appended.
C22_WitnessExact ==
    /\ pc = "loop"
    /\ Len(flight_levels) >= 3
    /\ flight_levels[Len(flight_levels) - 1] - target_fl = 10

\* C26: the CAS limit is unset until the first deceleration and is afterwards
\* the target of the last one; every deceleration's target is below the CAS
\* of the point that triggered it and below the targets of the decelerations
\* before it; there are at most three decelerations.
C26_CasLimitDecreases ==
    /\ decel_segments = << >> => loop.current_cas_limit = None
    /\ decel_segments # << >> =>
          loop.current_cas_limit * 10 = decel_segments[Len(decel_segments)].CAS_after
    /\ \A n \in 1..Len(decel_segments) :
          /\ decel_segments[n].CAS_after < decel_segments[n].CAS_before
          /\ \E j \in 1..Len(result_points) :
                /\ result_points[j].FL = decel_segments[n].FL /\ ~result_points[j].is_decel
                /\ result_points[j].CAS = decel_segments[n].CAS_before
          /\ \A m \in 1..(n - 1) : decel_segments[m].CAS_after > decel_segments[n].CAS_after
    /\ Len(decel_segments) <= 3

\* A finished profile with three decelerations.
C26_Witness ==
    /\ pc = "done"
    /\ Len(decel_segments) = 3

ValidSchedule ==
    /\ target_fl <= cruise_fl
    /\ intermediate_cas # None => intermediate_cas <= high_cas

\* C15: with the intermediate trigger level at 100 and a CAS sampled at FL100
\* above both 250 kt and the intermediate CAS, the segment recorded at FL100
\* is the profile-defined one: it targets the intermediate CAS, and so does
\* the deceleration point that follows.
C15_ProfilePrecedenceAtFL100 ==
    (intermediate_fl = 100 /\ intermediate_cas # None) =>
        \A j \in 1..(Len(result_points) - 1) :
            (/\ result_points[j].FL = 100 /\ ~result_points[j].is_decel
             /\ result_points[j].CAS > 2500
             /\ result_points[j].CAS > intermediate_cas * 10)
            => /\ \E n \in 1..Len(decel_segments) :
                     /\ decel_segments[n].FL = 100
                     /\ decel_segments[n].type = "Profile Deceleration"
                     /\ decel_segments[n].CAS_after = intermediate_cas * 10
               /\ result_points[j + 1].CAS = intermediate_cas * 10

\* C18: for a schedule with an intermediate CAS not above the high-altitude
\* CAS and a trigger level on the ladder, every point strictly below the
\* trigger level has a CAS of at most the intermediate CAS.
C18_BelowTriggerAtMostIntermediate ==
    (/\ intermediate_cas # None /\ intermediate_fl # None
     /\ intermediate_cas <= high_cas
     /\ \E n \in 1..Len(flight_levels) : flight_levels[n] = intermediate_fl)
    => \A j \in 1..Len(result_points) :
           result_points[j].FL < intermediate_fl
           => result_points[j].CAS <= intermediate_cas * 10

\* C19: a finished profile of a valid schedule whose target level is FL30
\* ends with a CAS of at most 220 kt.
C19_LastPointAtMost220 ==
    (pc = "done" /\ target_fl = 30 /\ ValidSchedule) =>
        result_points[Len(result_points)].CAS <= 2200

\* C20: with the cruise level above FL100 and the target below it, no point
\* below FL100 has a CAS above 250 kt (stated for valid schedules).
C20_NoPointBelow100Above250 ==
    (cruise_fl > 100 /\ target_fl < 100 /\ ValidSchedule) =>
        \A j \in 1..Len(result_points) :
            result_points[j].FL < 100 => result_points[j].CAS <= 2500

\* ------------------------------------ find_profile_for_rta as a state machine

SearchInit ==
    /\ oracle \in SearchOracles
    /\ \E trip \in SearchTrips :
          origin_fl = trip[1] /\ target_fl = trip[2] /\ standard_route_length = trip[3]
    /\ aircraft_mass = 60000
    /\ tolerance \in Tolerances
    /\ \E w \in {calculate_eta_window(oracle, origin_fl, target_fl, aircraft_mass,
                                       standard_route_length)} :
          rta \in RtaChoices(w.ETAmin.total_eta, w.ETAmax.total_eta, tolerance)
    /\ max_profiles = None /\ bracket = None
    /\ profile_params = << >> /\ k = 0 /\ suitable_profiles = << >>
    /\ returned = None /\ spc = "call"
    /\ cruise_fl = None /\ descent_mach = None /\ high_cas = None
    /\ intermediate_cas = None /\ intermediate_fl = None
    /\ params = None /\ flight_levels = << >> /\ i = 0 /\ loop = LoopStart
    /\ summary = None /\ pc = "idle"
    /\ invocation = 0 /\ previous = NoReturn
    /\ resolver_call = None /\ speed_profile = None
    /\ sep_model = None /\ RTA = None /\ B = None /\ verdict = None /\ sep_pc = "idle"

\* Lines 185-212: the bracket, the feasibility check and the candidate list.
\* An oracle error in the bracket and the division by a zero window are outside
\* any try block and leave the function.
SearchEnter ==
    /\ spc = "call"
    /\ \E w \in {calculate_eta_window(oracle, origin_fl, target_fl, aircraft_mass,
                                       standard_route_length)} :
       LET eta_min == w.ETAmin.total_eta
           eta_max == w.ETAmax.total_eta
       IN  IF w.raised
           THEN spc' = "raised" /\ UNCHANGED <<bracket, profile_params, returned>>
           ELSE /\ bracket' = w
                /\ IF Infeasible(rta, eta_min, eta_max, tolerance)
                   THEN returned' = << >> /\ spc' = "done" /\ UNCHANGED profile_params
                   ELSE IF DivisionRaises(rta - eta_min, eta_max - eta_min)
                   THEN spc' = "raised" /\ UNCHANGED <<profile_params, returned>>
                   ELSE /\ profile_params' = generate_profile_params(eta_min, eta_max, rta)
                        /\ spc' = "loop"
                        /\ UNCHANGED returned
    /\ UNCHANGED <<args, profile_vars, search_args, max_profiles, k, suitable_profiles,
                   repeat_vars, resolver_vars,
                   separation_vars>>

\* One iteration of the candidate loop (lines 223-288): an exception raised in
\* the try block is caught and the loop goes on.
SearchEvaluate ==
    /\ spc = "loop"
    /\ k < Len(profile_params)
    /\ \E c \in {EvaluateCandidate(oracle, origin_fl, target_fl, aircraft_mass,
                                    standard_route_length, rta, profile_params[k + 1])} :
       LET outcome == CandidateOutcome(c, tolerance)
       IN  IF outcome = "raise"
           THEN spc' = "raised" /\ UNCHANGED <<suitable_profiles, k>>
           ELSE /\ suitable_profiles' = IF outcome = "keep"
                                        THEN Append(suitable_profiles, c)
                                        ELSE suitable_profiles
                /\ k' = k + 1
                /\ spc' = spc
    /\ UNCHANGED <<args, profile_vars, search_args, max_profiles, bracket,
                   profile_params, returned, repeat_vars, resolver_vars,
                   separation_vars>>

\* Lines 290-296: sort, truncate, return.  max_profiles is read only here and
\* its value is drawn here.
SearchReturn ==
    /\ spc = "loop"
    /\ k = Len(profile_params)
    /\ \E mp \in 0..MaxProfiles :
          /\ max_profiles' = mp
          /\ returned' = Truncate(SortByDiff(suitable_profiles), mp)
    /\ spc' = "done"
    /\ UNCHANGED <<args, profile_vars, search_args, bracket, profile_params, k,
                   suitable_profiles, repeat_vars, resolver_vars,
                   separation_vars>>

SearchNext == SearchEnter \/ SearchEvaluate \/ SearchReturn

SearchSpec == SearchInit /\ [][SearchNext]_vars

\* ------------------------------------------------- claims about the search

EtaMin == bracket.ETAmin.total_eta
EtaMax == bracket.ETAmax.total_eta

FastSchedule == Param(800, 310, None, None)
SlowSchedule == Param(730, 245, 220, 150)

\* the returned list holds the schedule p with difference 0, and no returned
\* entry has a smaller difference
ReturnedAsBest(p) ==
    \E n \in 1..Len(returned) :
        /\ returned[n].params = p
        /\ returned[n].diff = 0
        /\ \A m \in 1..Len(returned) : returned[n].diff <= returned[m].diff

\* the kept candidates with difference 0 that precede the first kept entry of
\* the schedule p, in evaluation order
ZeroDiffBefore(p) ==
    LET first == CHOOSE n \in 1..Len(suitable_profiles) :
                     /\ suitable_profiles[n].params = p
                     /\ \A m \in 1..(n - 1) : suitable_profiles[m].params # p
    IN  {m \in 1..(first - 1) : suitable_profiles[m].diff = 0}

\* the bracket has been computed and the target accepted or refused
Bracketed == spc \in {"loop", "done"}

\* a search that returned from its last line (the bracket was computed, the
\* target was feasible and every candidate was evaluated)
Searched == spc = "done" /\ max_profiles # None

\* C5 as stated: with ETAmin < ETAmax, a search for RTA = ETAmin returns a
\* non-empty list holding the canonical fast schedule with difference 0 as a
\* minimum-difference entry; the same for ETAmax and the canonical slow schedule.
C5_CanonicalReturned ==
    (Searched /\ EtaMin < EtaMax) =>
        /\ rta = EtaMin => (returned # << >> /\ ReturnedAsBest(FastSchedule))
        /\ rta = EtaMax => (returned # << >> /\ ReturnedAsBest(SlowSchedule))

\* the amended statement for one end of the bracket
CanonicalKept(p) ==
    /\ \E n \in 1..Len(suitable_profiles) :
          suitable_profiles[n].params = p /\ suitable_profiles[n].diff = 0
    /\ max_profiles >= 1 =>
          /\ returned # << >>
          /\ returned[1].diff = 0
          /\ ReturnedAsBest(p) <=> Cardinality(ZeroDiffBefore(p)) < max_profiles

\* C5 (amended): with ETAmin < ETAmax, a search for RTA = ETAmin keeps the
\* canonical fast schedule with difference 0; for max_profiles >= 1 the
\* returned list is non-empty, its first entry has difference 0, and the
\* canonical schedule is in it exactly when fewer than max_profiles candidates
\* with difference 0 precede it in evaluation order.  The same for ETAmax and
\* the canonical slow schedule.
C5_CanonicalKept ==
    (Searched /\ EtaMin < EtaMax) =>
        /\ rta = EtaMin => CanonicalKept(FastSchedule)
        /\ rta = EtaMax => CanonicalKept(SlowSchedule)

\* A search for RTA = ETAmax with tolerance 0 that returned the canonical slow
\* schedule with difference 0.
C5_Witness ==
    /\ Searched /\ EtaMin < EtaMax
    /\ rta = EtaMax /\ tolerance = 0 /\ max_profiles >= 1
    /\ ReturnedAsBest(SlowSchedule)

\* C6: a target below ETAmin - tolerance or above ETAmax + tolerance returns
\* the empty list with no candidate generated or evaluated; a target exactly
\* at either limit goes on to the candidate loop.
C6_InfeasibleReturnsEmpty ==
    Bracketed =>
        IF rta < EtaMin - tolerance \/ rta > EtaMax + tolerance
        THEN spc = "done" /\ returned = << >> /\ k = 0 /\ profile_params = << >>
        ELSE profile_params # << >>

\* A target just below the lower limit was answered with the empty list.
C6_Witness ==
    /\ spc = "done"
    /\ tolerance > 0
    /\ rta = EtaMin - tolerance - 1
    /\ returned = << >>

\* C7: the returned list holds only candidates within the tolerance, in
\* ascending order of difference, at most max_profiles of them, and the kept
\* candidates with a smaller difference than a returned entry all stand before it.
C7_ReturnedList ==
    Searched =>
        /\ \A n \in 1..Len(returned) : returned[n].diff <= tolerance
        /\ \A n \in 1..(Len(returned) - 1) : returned[n].diff <= returned[n + 1].diff
        /\ Len(returned) <= max_profiles
        /\ Len(returned) = max_profiles \/ Len(returned) = Len(suitable_profiles)
        /\ \A n \in 1..Len(returned) :
              /\ \E a \in 1..Len(suitable_profiles) : suitable_profiles[a] = returned[n]
              /\ Cardinality({a \in 1..Len(suitable_profiles) :
                                 suitable_profiles[a].diff < returned[n].diff}) <= n - 1

\* A search that kept more candidates than it returned, kept them out of
\* order, and returned entries of different differences.
C7_Witness ==
    /\ Searched
    /\ Len(returned) >= 2
    /\ Len(suitable_profiles) > Len(returned)
    /\ returned[1].diff < returned[Len(returned)].diff
    /\ \E a \in 1..(Len(suitable_profiles) - 1) :
          suitable_profiles[a].diff > suitable_profiles[a + 1].diff

\* the candidate evaluated by the next iteration
NextCandidate ==
    EvaluateCandidate(oracle, origin_fl, target_fl, aircraft_mass,
                      standard_route_length, rta, profile_params[k + 1])

\* C8: every iteration of the candidate loop goes on to the next candidate,
\* also when the evaluation raised: the failed candidate is not kept, the
\* others are kept as usual, and the search ends only past the last candidate.
C8_CandidateErrorSwallowed ==
    [][(spc = "loop" /\ k < Len(profile_params)) =>
          /\ spc' = "loop"
          /\ k' = k + 1
          /\ suitable_profiles' =
                IF ~NextCandidate.raised /\ NextCandidate.diff <= tolerance
                THEN Append(suitable_profiles, NextCandidate)
                ELSE suitable_profiles]_vars

\* A search in which a candidate raised and a later one was kept and returned.
C8_Witness ==
    /\ Searched
    /\ returned # << >>
    /\ \E a \in 1..Len(profile_params) :
          /\ \E b \in (a + 1)..Len(profile_params) :
                \E n \in 1..Len(returned) : returned[n].params = profile_params[b]
          /\ \A n \in 1..Len(suitable_profiles) :
                suitable_profiles[n].params # profile_params[a]
          /\ EvaluateCandidate(oracle, origin_fl, target_fl, aircraft_mass,
                               standard_route_length, rta, profile_params[a]).raised

\* C9: the bracket and the kept candidates never carry a negative cruise
\* distance or cruise time: a descent longer than the route is an error.
C9_NoNegativeCruise ==
    /\ Bracketed =>
          /\ bracket.ETAmin.cruise_distance >= 0 /\ bracket.ETAmin.cruise_time >= 0
          /\ bracket.ETAmax.cruise_distance >= 0 /\ bracket.ETAmax.cruise_time >= 0
    /\ \A n \in 1..Len(suitable_profiles) :
          /\ suitable_profiles[n].cruise_distance >= 0
          /\ suitable_profiles[n].cruise_time >= 0

\* what the caller of a finished search receives: the ETAs held by the
\* returned list (the function returns the list and nothing else, line 296)
ReturnedTimes == {returned[n].eta : n \in 1..Len(returned)}

\* C11: a search refused as infeasible hands the caller the bracket: ETAmin
\* and ETAmax are part of what is returned with the empty list.
C11_InfeasibleCarriesBracket ==
    (spc = "done" /\ (rta < EtaMin - tolerance \/ rta > EtaMax + tolerance)) =>
        /\ returned = << >>
        /\ EtaMin \in ReturnedTimes
        /\ EtaMax \in ReturnedTimes

\* C12: an oracle error on one side of the bracket never ends the search as
\* an exception leaving find_profile_for_rta.
C12_BracketErrorHandled ==
    spc = "raised" =>
        ~calculate_eta_window(oracle, origin_fl, target_fl, aircraft_mass,
                              standard_route_length).raised

\* ------------------------------------ calculate_eta_window as a state machine

WindowOracles == OracleModels \cup {"draggy"}
WindowOrigins == {370, 375, 200, 120}
WindowTargets == {30, 100, 160}
\* standard_route_length, in 0.1 nm
WindowRoutes == {300, 600, 1100, 2000, 3000}

WindowInit ==
    /\ oracle \in WindowOracles
    /\ origin_fl \in WindowOrigins
    /\ target_fl \in WindowTargets
    /\ aircraft_mass \in Masses
    /\ standard_route_length \in WindowRoutes
    /\ bracket = None /\ spc = "call"
    /\ rta = None /\ tolerance = None /\ max_profiles = None
    /\ profile_params = << >> /\ k = 0 /\ suitable_profiles = << >>
    /\ returned = None
    /\ cruise_fl = None /\ descent_mach = None /\ high_cas = None
    /\ intermediate_cas = None /\ intermediate_fl = None
    /\ params = None /\ flight_levels = << >> /\ i = 0 /\ loop = LoopStart
    /\ summary = None /\ pc = "idle"
    /\ invocation = 0 /\ previous = NoReturn
    /\ resolver_call = None /\ speed_profile = None
    /\ sep_model = None /\ RTA = None /\ B = None /\ verdict = None /\ sep_pc = "idle"

\* calculate_eta_window (lines 4-149): both profiles, both trips, the result;
\* an oracle error on either side leaves the function.
Window ==
    /\ spc = "call"
    /\ \E w \in {calculate_eta_window(oracle, origin_fl, target_fl, aircraft_mass,
                                       standard_route_length)} :
          IF w.raised
          THEN spc' = "raised" /\ UNCHANGED bracket
          ELSE bracket' = w /\ spc' = "done"
    /\ UNCHANGED <<args, profile_vars, search_args, max_profiles, profile_params, k,
                   suitable_profiles, returned, repeat_vars, resolver_vars,
                   separation_vars>>

WindowSpec == WindowInit /\ [][Window]_vars

ResolverLevels == {90, 100, 140, 149, 150, 151, 299, 300, 301}
ResolverCrossovers == {300, 150}
ResolverLowCas == {None, 220}
ResolverLowCasFl == {None, 150}
ResolverConstantCas == {None, 280}
ResolverForceCas == {None, 250}

ResolverInit ==
    /\ resolver_call \in [flight_level : ResolverLevels,
                          crossover_fl : ResolverCrossovers,
                          descent_mach : {780},
                          high_cas : {300},
                          low_cas : ResolverLowCas,
                          low_cas_fl : ResolverLowCasFl,
                          constant_cas : ResolverConstantCas,
                          force_cas : ResolverForceCas]
    /\ speed_profile = None /\ pc = "call"
    /\ oracle = "nominal" /\ target_fl = None /\ aircraft_mass = None
    /\ cruise_fl = None /\ descent_mach = None /\ high_cas = None
    /\ intermediate_cas = None /\ intermediate_fl = None
    /\ params = None /\ flight_levels = << >> /\ i = 0 /\ loop = LoopStart
    /\ summary = None
    /\ origin_fl = None /\ standard_route_length = None /\ rta = None
    /\ tolerance = None /\ max_profiles = None /\ bracket = None
    /\ profile_params = << >> /\ k = 0 /\ suitable_profiles = << >>
    /\ returned = None /\ spc = "idle"
    /\ invocation = 0 /\ previous = NoReturn
    /\ sep_model = None /\ RTA = None /\ B = None /\ verdict = None /\ sep_pc = "idle"

\* The speed chosen for one sample (lines 68-78, calling lines 25-53).
Resolve ==
    /\ pc = "call"
    /\ speed_profile' = ResolveSpeed(resolver_call.flight_level, resolver_call.crossover_fl,
                                     resolver_call.descent_mach, resolver_call.high_cas,
                                     resolver_call.low_cas, resolver_call.low_cas_fl,
                                     resolver_call.constant_cas, resolver_call.force_cas)
    /\ pc' = "done"
    /\ UNCHANGED <<args, params, flight_levels, i, loop, summary, search_args,
                   search_vars, repeat_vars, resolver_call, separation_vars>>

ResolverSpec == ResolverInit /\ [][Resolve]_vars

\* the resolver answered, and no CAS was forced
Resolved == pc = "done" /\ resolver_call.force_cas = None

\* the answer is a Mach hold at the descent Mach
HoldsMach ==
    /\ speed_profile.M = resolver_call.descent_mach
    /\ speed_profile.flight_evolution = "constM"
    /\ speed_profile.target_cas = None

\* C16 as stated: with no forced CAS the resolver holds Mach exactly when no
\* intermediate CAS is configured and the level is at or above the crossover
\* level; with an intermediate CAS and a trigger level it never holds Mach.
C16_MachOnlyWithoutIntermediate ==
    Resolved =>
        /\ HoldsMach <=> (/\ resolver_call.low_cas = None
                          /\ resolver_call.flight_level >= resolver_call.crossover_fl)
        /\ (resolver_call.low_cas # None /\ resolver_call.low_cas_fl # None) => ~HoldsMach

\* C16 (amended): with no forced CAS the resolver holds Mach exactly when no
\* constant CAS is configured and the level is at or above the crossover
\* level, whether or not an intermediate CAS and trigger level are configured;
\* otherwise it resolves to a CAS.
C16_MachAtOrAboveCrossover ==
    Resolved =>
        /\ HoldsMach <=> (/\ resolver_call.constant_cas = None
                          /\ resolver_call.flight_level >= resolver_call.crossover_fl)
        /\ ~HoldsMach => (/\ speed_profile.M = None
                          /\ speed_profile.flight_evolution = "constCAS"
                          /\ speed_profile.target_cas # None)

\* A schedule with an intermediate CAS and trigger level, resolved exactly at
\* the crossover level, holds Mach.
C16_Witness ==
    /\ Resolved
    /\ resolver_call.low_cas # None /\ resolver_call.low_cas_fl # None
    /\ resolver_call.constant_cas = None
    /\ resolver_call.flight_level = resolver_call.crossover_fl
    /\ HoldsMach

\* C17: when Mach is not held and no CAS is forced, the CAS target is the
\* high-altitude CAS at or above a configured trigger level, the intermediate
\* CAS strictly below the trigger level when one is configured, and the
\* high-altitude CAS in every other case.
C17_CasTarget ==
    (Resolved /\ ~HoldsMach) =>
        LET fl == resolver_call.flight_level
            trigger == resolver_call.low_cas_fl
            intermediate == resolver_call.low_cas
        IN  /\ (trigger # None /\ fl >= trigger)
                   => speed_profile.target_cas = resolver_call.high_cas
            /\ (trigger # None /\ fl < trigger /\ intermediate # None)
                   => speed_profile.target_cas = intermediate
            /\ (trigger = None \/ (fl < trigger /\ intermediate = None))
                   => speed_profile.target_cas = resolver_call.high_cas

\* A CAS resolved exactly at the trigger level of a schedule with an
\* intermediate CAS: the high-altitude CAS.
C17_Witness ==
    /\ Resolved /\ ~HoldsMach
    /\ resolver_call.low_cas # None
    /\ resolver_call.low_cas_fl = resolver_call.flight_level
    /\ speed_profile.target_cas = resolver_call.high_cas
    /\ resolver_call.high_cas # resolver_call.low_cas

\* ------------------------------------------ claims about the candidate list

\* the feasibility check was passed and generate_profile_params has run
Positioned == spc = "loop" \/ Searched

\* rta_relative_position (A320.py line 315) as numerator and denominator
PositionNum == rta - EtaMin
PositionDen == EtaMax - EtaMin

\* C23 as stated: for every target that passes the feasibility check the
\* relative position (RTA - ETAmin)/(ETAmax - ETAmin) lies in [0, 1].
C23_PositionInUnitInterval ==
    (Positioned /\ PositionDen > 0) => (0 <= PositionNum /\ PositionNum <= PositionDen)

\* C23 (amended): for every target that passes the feasibility check the
\* relative position lies between -tolerance/(ETAmax - ETAmin) and
\* 1 + tolerance/(ETAmax - ETAmin); it lies in [0, 1] when the tolerance is 0;
\* a negative position selects the band below 0.2 and a position above 1 the
\* band from 0.8.
C23_PositionWithinTolerance ==
    (Positioned /\ PositionDen > 0) =>
        /\ -tolerance <= PositionNum /\ PositionNum <= PositionDen + tolerance
        /\ tolerance = 0 => (0 <= PositionNum /\ PositionNum <= PositionDen)
        /\ PositionNum < 0 => profile_params[1] = Param(780, 290, None, None)
        /\ PositionNum > PositionDen => profile_params[1] = Param(730, 245, 220, 60)

\* A search for a target a tolerance before ETAmin, and one for a target a
\* tolerance after ETAmax, both run to their return.
C23_Witness ==
    /\ Searched /\ PositionDen > 0 /\ tolerance > 0
    /\ PositionNum = -tolerance \/ PositionNum = PositionDen + tolerance

\* the band of the relative position, by the half-open intervals
\* position < 0.2, [0.2, 0.4), [0.4, 0.6), [0.6, 0.8), >= 0.8
BandIndex ==
    IF PositionNum * 10 < 2 * PositionDen THEN 1
    ELSE IF PositionNum * 10 < 4 * PositionDen THEN 2
    ELSE IF PositionNum * 10 < 6 * PositionDen THEN 3
    ELSE IF PositionNum * 10 < 8 * PositionDen THEN 4
    ELSE 5

\* the candidate list without its last two entries
CrossProduct == SubSeq(profile_params, 1, Len(profile_params) - 2)

\* every combination of a Mach number of the list, a CAS listed with that Mach
\* number and an intermediate option of the list is in the list
IsFullCrossProduct(list) ==
    \E entries \in {{list[n] : n \in 1..Len(list)}} :
    \E options \in {{<<p.intermediate_cas, p.intermediate_fl>> : p \in entries}} :
        \A m \in {p.descent_mach : p \in entries} :
            \A c \in {p.high_cas : p \in {q \in entries : q.descent_mach = m}} :
                \A o \in options : Param(m, c, o[1], o[2]) \in entries

\* C24: the band is the one of the half-open interval that holds the relative
\* position (identified by its Mach values and its list size 29, 41, 42, 38,
\* 38); the candidate list is the full cross-product of the band's Mach
\* values, each Mach's CAS values and the band's intermediate options,
\* followed by the fast baseline (0.80/310, no step) and the slow baseline
\* (0.73/245/220 at FL150).
C24_BandAndCrossProduct ==
    (Positioned /\ PositionDen > 0) =>
        /\ Len(profile_params) = <<29, 41, 42, 38, 38>>[BandIndex]
        /\ {CrossProduct[n].descent_mach : n \in 1..Len(CrossProduct)} =
               << {780, 790, 800}, {760, 770, 780, 790}, {750, 760, 770},
                  {740, 750, 760}, {730, 740} >>[BandIndex]
        /\ profile_params[Len(profile_params) - 1] = FastSchedule
        /\ profile_params[Len(profile_params)] = SlowSchedule
        /\ IsFullCrossProduct(CrossProduct)

\* A target exactly on the boundary 0.2 takes the band [0.2, 0.4).
C24_Witness ==
    /\ Positioned /\ PositionDen > 0
    /\ PositionNum * 10 = 2 * PositionDen
    /\ Len(profile_params) = 41

\* --------------------------------------- claims about the evaluation order

\* Each candidate's evaluation reads only the arguments and the candidate, so
\* evaluating the candidates in another order keeps the same candidates, in
\* that order: the kept list under a permuted loop is a permutation of
\* suitable_profiles.
Reversed(list) == [n \in 1..Len(list) |-> list[Len(list) + 1 - n]]
Rotated(list) == IF list = << >> THEN list ELSE Append(Tail(list), Head(list))

\* the kept lists of the evaluation orders compared: as listed, backwards,
\* and starting with the second candidate
EvaluationOrders == {suitable_profiles, Reversed(suitable_profiles), Rotated(suitable_profiles)}

\* what lines 291-296 return for a kept list
ReturnedFor(kept) == Truncate(SortByDiff(kept), max_profiles)

Schedules(list) == [n \in 1..Len(list) |-> list[n].params]
Differences(list) == [n \in 1..Len(list) |-> list[n].diff]

\* no two kept candidates with different schedules have the same difference
NoTies ==
    \A a, b \in 1..Len(suitable_profiles) :
        suitable_profiles[a].diff = suitable_profiles[b].diff =>
            suitable_profiles[a].params = suitable_profiles[b].params

\* C25 as stated: whatever the order in which the candidates are evaluated,
\* the returned sequence of schedules is the same, ties included.
C25_OrderIndependent ==
    Searched =>
        \A kept \in EvaluationOrders : Schedules(ReturnedFor(kept)) = Schedules(returned)

\* C25 (amended): whatever the order of evaluation, the returned sequence of
\* differences is the same, and the returned sequence of schedules is the same
\* when no two kept candidates with different schedules tie.
C25_OrderIndependentWithoutTies ==
    Searched =>
        \A kept \in EvaluationOrders :
            /\ Differences(ReturnedFor(kept)) = Differences(returned)
            /\ NoTies => Schedules(ReturnedFor(kept)) = Schedules(returned)

\* A search that kept several candidates without a tie and returned more than
\* one of them, in another order than they were evaluated.
C25_Witness ==
    /\ Searched
    /\ NoTies
    /\ Len(returned) >= 2
    /\ Schedules(returned) # Schedules(Truncate(suitable_profiles, max_profiles))

\* A search whose kept candidates tie.
C25_WitnessTies ==
    /\ Searched
    /\ ~NoTies
    /\ \E kept \in EvaluationOrders : Schedules(ReturnedFor(kept)) # Schedules(returned)

\* ------------------------------------------- claims about repeated schedules

\* the number of entries of a list of schedules equal to p
Occurrences(list, p) == Cardinality({n \in 1..Len(list) : list[n] = p})

\* C27: in the band below 0.2 every schedule of the cross-product with the
\* option (220, FL50) is listed twice and the fast baseline is listed in the
\* cross-product too; in the band from 0.8 the slow baseline is listed in the
\* cross-product too; the search keeps a schedule as many times as it is
\* listed, and returns the kept entries without removing repetitions.
C27_RepeatedSchedules ==
    /\ (Positioned /\ PositionDen > 0 /\ BandIndex = 1) =>
          /\ \A n \in 1..Len(CrossProduct) :
                CrossProduct[n].intermediate_fl = 50 => Occurrences(CrossProduct, CrossProduct[n]) = 2
          /\ Occurrences(profile_params, FastSchedule) = 2
    /\ (Positioned /\ PositionDen > 0 /\ BandIndex = 5) =>
          Occurrences(profile_params, SlowSchedule) = 2
    /\ Searched =>
          /\ \A n \in 1..Len(suitable_profiles) :
                Occurrences(Schedules(suitable_profiles), suitable_profiles[n].params)
                    = Occurrences(profile_params, suitable_profiles[n].params)
          /\ Len(returned) = (IF max_profiles < Len(suitable_profiles)
                              THEN max_profiles ELSE Len(suitable_profiles))

\* A search that returned the same schedule in two of its slots.
C27_Witness ==
    /\ Searched
    /\ \E a, b \in 1..Len(returned) : a # b /\ returned[a].params = returned[b].params

\* ------------------------------------------------ claims about a zero window

t_sep == 120

\* Big-M.py line 14: the demonstration's Big-M value
big_M == 500

\* MILP.py lines 12-18
aircraft_data ==
    [A |-> [STA |-> 1000, ETA |-> 900, LTA |-> 1200],
     B |-> [STA |-> 1100, ETA |-> 1000, LTA |-> 1300],
     C |-> [STA |-> 1200, ETA |-> 1100, LTA |-> 1400],
     D |-> [STA |-> 1300, ETA |-> 1200, LTA |-> 1500],
     E |-> [STA |-> 1400, ETA |-> 1300, LTA |-> 1600]]

aircraft_list == <<"A", "B", "C", "D", "E">>

\* MILP.py lines 30-34: the pairs (i, j) with i before j in the list
aircraft_pairs ==
    {<<aircraft_list[q[1]], aircraft_list[q[2]]>> :
        q \in {r \in (1..Len(aircraft_list)) \X (1..Len(aircraft_list)) : r[1] < r[2]}}

\* MILP.py lines 44-45 (and Big-M.py lines 133-135)
calculate_big_M(LTA_i, ETA_i, LTA_j, ETA_j) ==
    IF LTA_i - ETA_j >= LTA_j - ETA_i THEN LTA_i - ETA_j ELSE LTA_j - ETA_i

\* MILP.py lines 69-73 (Big-M.py lines 16-17: the variables' bounds)
time_window_rule(ETA_, LTA_, rta_) == ETA_ <= rta_ /\ rta_ <= LTA_

\* MILP.py lines 85-87, Big-M.py lines 39-41
separation_constraint_1_rule(M, rta_i, rta_j, b) == rta_i + t_sep <= rta_j + M * (1 - b)

\* A second constraint switched like the first.
separation_constraint_2_same_switch(M, rta_i, rta_j, b) == rta_j + t_sep <= rta_i + M * (1 - b)

\* MILP.py lines 89-91, Big-M.py lines 43-45
separation_constraint_2_rule(M, rta_i, rta_j, b) == rta_j + t_sep <= rta_i + M * b

\* Big-M.py lines 12-18: aircraft A and B with M = 500
DemoModel ==
    [name |-> "Big-M", i |-> "A", j |-> "B", ETA_i |-> 900, LTA_i |-> 1200,
     ETA_j |-> 1000, LTA_j |-> 1300, big_M |-> big_M]

\* MILP.py: the parameters of the pair (i, j)
MilpModel(ac_i, ac_j) ==
    [name |-> "MILP", i |-> ac_i, j |-> ac_j,
     ETA_i |-> aircraft_data[ac_i].ETA, LTA_i |-> aircraft_data[ac_i].LTA,
     ETA_j |-> aircraft_data[ac_j].ETA, LTA_j |-> aircraft_data[ac_j].LTA,
     big_M |-> calculate_big_M(aircraft_data[ac_i].LTA, aircraft_data[ac_i].ETA,
                               aircraft_data[ac_j].LTA, aircraft_data[ac_j].ETA)]

\* RtaStep is the spacing of the arrival times tried, in seconds.
RtaStep == 20

\* the arrival times tried for a window: from one step before its start to
\* one step after its end
RtaGrid(ETA_, LTA_) == {ETA_ - RtaStep + RtaStep * n : n \in 0..((LTA_ - ETA_) \div RtaStep + 2)}

SeparationInit ==
    /\ sep_model \in {DemoModel} \cup {MilpModel(pair[1], pair[2]) : pair \in aircraft_pairs}
    /\ RTA = None /\ B = None /\ verdict = None /\ sep_pc = "built"
    /\ resolver_call = None /\ speed_profile = None /\ pc = "idle"
    /\ oracle = "nominal" /\ target_fl = None /\ aircraft_mass = None
    /\ cruise_fl = None /\ descent_mach = None /\ high_cas = None
    /\ intermediate_cas = None /\ intermediate_fl = None
    /\ params = None /\ flight_levels = << >> /\ i = 0 /\ loop = LoopStart
    /\ summary = None
    /\ origin_fl = None /\ standard_route_length = None /\ rta = None
    /\ tolerance = None /\ max_profiles = None /\ bracket = None
    /\ profile_params = << >> /\ k = 0 /\ suitable_profiles = << >>
    /\ returned = None /\ spc = "idle"
    /\ invocation = 0 /\ previous = NoReturn

\* The solver proposes values for the decision variables RTA[i], RTA[j] and
\* B[i,j] (MILP.py lines 52-55, Big-M.py lines 16-18).
Assign ==
    /\ sep_pc = "built"
    /\ \E rta_i \in RtaGrid(sep_model.ETA_i, sep_model.LTA_i) :
       \E rta_j \in RtaGrid(sep_model.ETA_j, sep_model.LTA_j) :
       \E b \in {0, 1} :
          /\ RTA' = [i |-> rta_i, j |-> rta_j]
          /\ B' = b
    /\ sep_pc' = "assigned"
    /\ UNCHANGED <<args, profile_vars, search_args, search_vars, repeat_vars,
                   resolver_vars, sep_model, verdict>>

\* The constraints are evaluated on the assignment (Big-M.py lines 75-90;
\* MILP.py lines 69-95).
Verify ==
    /\ sep_pc = "assigned"
    /\ verdict' =
          [time_window |-> /\ time_window_rule(sep_model.ETA_i, sep_model.LTA_i, RTA.i)
                           /\ time_window_rule(sep_model.ETA_j, sep_model.LTA_j, RTA.j),
           separation_1 |-> separation_constraint_1_rule(sep_model.big_M, RTA.i, RTA.j, B),
           separation_2 |-> separation_constraint_2_rule(sep_model.big_M, RTA.i, RTA.j, B)]
    /\ sep_pc' = "verified"
    /\ UNCHANGED <<args, profile_vars, search_args, search_vars, repeat_vars,
                   resolver_vars, sep_model, RTA, B>>

SeparationNext == Assign \/ Verify

SeparationSpec == SeparationInit /\ [][SeparationNext]_vars

\* the assignment satisfies every constraint of the pair
Feasible == verdict.time_window /\ verdict.separation_1 /\ verdict.separation_2

\* C29 as stated: for arrival times within the two windows that are at least
\* t_sep apart, some value of the ordering variable satisfies both separation
\* constraints.
C29_SeparatedScheduleAdmitted ==
    (sep_pc = "verified" /\ verdict.time_window /\ Abs(RTA.i - RTA.j) >= t_sep) =>
        \E b \in {0, 1} :
            /\ separation_constraint_1_rule(sep_model.big_M, RTA.i, RTA.j, b)
            /\ separation_constraint_2_rule(sep_model.big_M, RTA.i, RTA.j, b)

\* C30: an assignment that satisfies the time windows and both separation
\* constraints keeps the pair at least t_sep apart: B = 1 puts i at least
\* t_sep before j, B = 0 puts j at least t_sep before i.
C30_FeasibleIsSeparated ==
    (sep_pc = "verified" /\ Feasible) =>
        /\ Abs(RTA.i - RTA.j) >= t_sep
        /\ B = 1 => RTA.i + t_sep <= RTA.j
        /\ B = 0 => RTA.j + t_sep <= RTA.i

\* A feasible assignment with j first.
C30_Witness ==
    /\ sep_pc = "verified" /\ Feasible
    /\ B = 0 /\ RTA.j + t_sep = RTA.i

\* A feasible assignment with i first.
C30_WitnessFirst ==
    /\ sep_pc = "verified" /\ Feasible
    /\ B = 1 /\ RTA.i + t_sep <= RTA.j

====
